---- MODULE Spec2Model ----
(***************************************************************************)
(* The continuation machine of continuation_machine.h, modelled as the     *)
(* expansion the C preprocessor performs on CM(f, initial_state, ...).     *)
(*                                                                         *)
(* A macro invocation whose argument is still being expanded is a pending  *)
(* frame on `stack` (innermost last).  `val` is the token list the         *)
(* innermost expansion has produced so far: a machine state (p, f, state,  *)
(* args...), the closed form ") tail" left behind by CM_EXIT / CM_RETURN   *)
(* (with the macro names that were not invoked in front of it), or plain   *)
(* text that nothing invokes.                                              *)
(***************************************************************************)
EXTENDS Integers, Sequences, FiniteSets, TLC

\* ------------------------------------------------------------------ bounds
MaxCounter0 == 1     \* __COUNTER__ expansions that precede the run
MaxN        == 20    \* largest initial counter of the decrementing function
MaxElems    == 7     \* largest short list handed to FOREACH

\* --------------------------------------------------------------- constants
\* A chain of CM_CONT_N that ends one level earlier, with CM_CONT_8
MAXEight == 9 - 1

MAX == 9             \* the last level: CM_CONT_9 ends in CM_ABORT_ITER

VARIABLES
  hook,        \* which definition of CM_ERROR_ITERATION_LIMIT_REACHED is in force
  f0,          \* the f passed to CM
  n0,          \* the initial counter of a DEC run (0 for the other runs)
  c0,          \* the value of __COUNTER__ when the run starts
  nE,          \* the number of elements handed to FOREACH (0 for the other runs)
  run,         \* 1 for the first CM of the translation unit, 2 for the second
  prev,        \* run = 2: how the first run ended
  COUNTER,     \* the value the next __COUNTER__ expands to
  pc,          \* "invoke" | "dispatch" | "rescan" | "done"
  stack,       \* pending CM_EXECUTE_n / CM_CONTINUE_n / CM_ABORT_ITER frames
  call,        \* pc = "invoke": the macro about to be invoked on val.ms
  val,         \* the expansion produced so far
  fn,          \* pc = "dispatch": the f of CM_##f; afterwards the last one
  inp,         \* pc = "dispatch": the arguments CM_##f receives
  inP,         \* the first argument received by the last dispatch
  count,       \* dispatches CM_##f performed so far
  apps,        \* dispatches that were not CM_RETURN / CM_EXIT / the hook
  level,       \* N of the last CM_CONT_N invoked
  levelCount,  \* dispatches performed since that CM_CONT_N was invoked
  attempts,    \* CM_CONT_N invocations so far
  signal,      \* "none" | "RETURN" | "EXIT"
  hookVia,     \* "none" | "abort" | "dispatch": how the hook was invoked
  retState,    \* the state argument of the CM_RETURN that was expanded
  outcome,     \* "running" | "expanded" | the reason preprocessing failed
  output,      \* what the whole CM expression expanded to
  gApps        \* expansions of the element function of FOREACH

vars == <<hook, f0, n0, c0, nE, run, prev, COUNTER, pc, stack, call, val, fn,
          inp, inP, count, apps, level, levelCount, attempts, signal, hookVia,
          retState, outcome, output, gApps>>

\* ------------------------------------------------------------------ tokens
\* An identifier or a number; pasting a prefix in front changes only `id`.
Id(s)  == [id |-> s, n |-> 0]
Num(k) == [id |-> "", n |-> k]

\* One argument: a parenthesized list ( toks ) or the bare tokens toks.
Paren(toks) == [paren |-> TRUE,  toks |-> toks]
Bare(toks)  == [paren |-> FALSE, toks |-> toks]

CM_NO_STATE == Paren(<<>>)

LPAREN == Id("(")
RPAREN == Id(")")

MachineState(p, f, state, args) ==
  [p |-> p, f |-> f, state |-> state, args |-> args]

NoMS == MachineState("", "", CM_NO_STATE, <<>>)

StateVal(ms)        == [kind |-> "state",  ms |-> ms,   left |-> <<>>, tail |-> <<>>]
ClosedVal(tail)     == [kind |-> "closed", ms |-> NoMS, left |-> <<>>, tail |-> tail]
TextVal             == [kind |-> "text",   ms |-> NoMS, left |-> <<>>, tail |-> <<>>]

\* A macro name with its level suffix; a token like any other
Macro(m, n) == [id |-> m, n |-> n]
NoCall == Macro("", 0)

RECURSIVE Pow2(_)
Pow2(k) == IF k = 0 THEN 1 ELSE 2 * Pow2(k - 1)

\* The dispatches all levels 0..MAX allow together
Limit == Pow2(MAX + 2) - 2

\* ------------------------------------------------------ termination macros
\* EXPAND that leaves the parentheses in place
EXPANDKeepsParens(state) ==
  IF state.paren THEN <<LPAREN>> \o state.toks \o <<RPAREN>>
  ELSE <<Id("EXPAND")>> \o state.toks

\* EXPAND applied to `state`: the parentheses of a parenthesized state are
\* its argument list; in front of bare tokens EXPAND is not invoked and stays.
EXPAND(state) ==
  IF state.paren THEN state.toks ELSE <<Id("EXPAND")>> \o state.toks

\* #define CM_EXIT(...) CM_RPAREN
CM_EXIT == ClosedVal(<<>>)

\* CM_RETURN that expands the first of the remaining arguments
CM_RETURNOfArgs(p, f, state, args) ==
  ClosedVal(EXPAND(IF args = <<>> THEN state ELSE Head(args)))

\* #define CM_RETURN(p, f, state, ...) CM_EXIT() EXPAND state
CM_RETURN(p, f, state, args) == ClosedVal(EXPAND(state))

\* DISCARD CM_LPAREN left ) tail : DISCARD swallows its argument list.
DISCARD(left, tail) == tail

\* ----------------------------------------------------------------- pasting
\* p##f
PasteName(p, f) == p \o f

\* p##__VA_ARGS__ that leaves the state as it is
PasteStateLeaves(p, state) == {[ok |-> TRUE, state |-> state]}

\* p##__VA_ARGS__ pastes p onto the first token of the state.  Pasting a
\* non-empty p onto "(" gives no valid token: the behaviour is undefined; a
\* build either rejects it or leaves the two tokens side by side.
PasteState(p, state) ==
  IF p = "" THEN {[ok |-> TRUE, state |-> state]}
  ELSE IF state.paren
    THEN {[ok |-> FALSE, state |-> state],
          [ok |-> TRUE,
           state |-> Bare(<<Id(p), LPAREN>> \o state.toks \o <<RPAREN>>)]}
    ELSE {[ok |-> TRUE,
           state |-> IF state.toks = <<>> THEN Bare(<<Id(p)>>)
                     ELSE Bare(<<[id |-> p \o Head(state.toks).id,
                                  n  |-> Head(state.toks).n]>>
                               \o Tail(state.toks))]}

\* CM_##p##f: the dispatch on the pasted name
DispatchTargetPasted(ms) == PasteName(ms.p, ms.f)

\* The f of CM_##f
DispatchTarget(ms) == ms.f

\* CM_##f(p, p##f, p##__VA_ARGS__): the prefix handed on
DispatchInputKeepsPrefix(ms, state) ==
  MachineState(ms.p, PasteName(ms.p, ms.f), state, ms.args)

\* The arguments of CM_##f(, p##f, p##__VA_ARGS__)
DispatchInput(ms, state) ==
  MachineState("", PasteName(ms.p, ms.f), state, ms.args)

\* ------------------------------------------------------------------ frames
\* CM_CONT_N without its CM_EXECUTE_N: one dispatch per level
ContFramesNoExecute(n) ==
  << IF n < MAX THEN Macro("CM_CONTINUE", n + 1) ELSE Macro("CM_ABORT_ITER", 0) >>

\* CM_CONT_N whose outer macro is CM_CONTINUE_N: the same level once more
ContFramesRepeat(n) ==
  << IF n < MAX THEN Macro("CM_CONTINUE", n) ELSE Macro("CM_ABORT_ITER", 0),
     Macro("CM_EXECUTE", n) >>

\* CM_CONT_N(p, f, ...) OUTER(CM_EXECUTE_N(CM_##f(...)))
ContFrames(n) ==
  << IF n < MAX THEN Macro("CM_CONTINUE", n + 1) ELSE Macro("CM_ABORT_ITER", 0),
     Macro("CM_EXECUTE", n) >>

\* CM_EXEC_N with a single CM_EXECUTE_N-1 around the dispatch
ExecFramesSingle(n) ==
  IF n = 0 THEN <<>> ELSE << Macro("CM_EXECUTE", n - 1) >>

\* CM_EXEC_0: CM_##f(...); CM_EXEC_N: CM_EXECUTE_N-1(CM_EXECUTE_N-1(CM_##f(...)))
ExecFrames(n) ==
  IF n = 0 THEN <<>>
  ELSE << Macro("CM_EXECUTE", n - 1), Macro("CM_EXECUTE", n - 1) >>

\* CM_CONTINUE_N going to CM_CONT_N+1 instead of CM_CONT_N
TargetSkipsLevel(frame) ==
  IF frame.id = "CM_EXECUTE" THEN Macro("CM_EXEC", frame.n)
  ELSE IF frame.id = "CM_CONTINUE"
    THEN Macro("CM_CONT", IF frame.n < MAX THEN frame.n + 1 ELSE MAX)
  ELSE Macro("CM_ERROR_ITERATION_LIMIT_REACHED", 0)

\* The macro name a frame puts in front of its expanded argument
Target(frame) ==
  IF frame.id = "CM_EXECUTE" THEN Macro("CM_EXEC", frame.n)
  ELSE IF frame.id = "CM_CONTINUE" THEN Macro("CM_CONT", frame.n)
  ELSE Macro("CM_ERROR_ITERATION_LIMIT_REACHED", 0)

\* A macro name invoked whatever follows it
InvokedAlways(v) == TRUE

\* A function-like macro name is invoked only when "(" follows it.
Invoked(v) == v.kind = "state"

Top == stack[Len(stack)]
Pop == SubSeq(stack, 1, Len(stack) - 1)

\* ---------------------------------------------------------------- registry
Terminators == {"RETURN", "EXIT"}
HookName    == "ERROR_ITERATION_LIMIT_REACHED"
Functions   == {"ADD", "DEC", "USER", "OTHER", "FOREACH_ITERATE"}
Defined     == Functions \cup Terminators \cup {HookName}
EntryFunctions == {"ADD", "DEC", "USER", "RETURN", "EXIT", "FOREACH_ITERATE"}

Prefixes    == {"", "X"}
UserStates  == {Paren(<<Id("a")>>), Bare(<<Id("st")>>)}

\* ----------------------------------------------------------------- FOREACH
\* The element function handed to FOREACH, and what it expands to on an
\* element (on no tokens at all when the element is empty)
G == Bare(<<Id("G")>>)
GOf(head) ==
  IF head.toks = <<>> THEN Id("G()") ELSE [id |-> "G", n |-> Head(head.toks).n]

\* The list a1, ..., an: the numbers 1..n
Elems(n) == [i \in 1..n |-> Bare(<<Num(i)>>)]

\* An empty variadic tail still leaves one (empty) argument after the comma
Variadic(rest) == IF rest = <<>> THEN <<Bare(<<>>)>> ELSE rest

\* #define FOREACH(f, ...) CM(FOREACH_ITERATE, CM_NO_STATE, f, __VA_ARGS__)
FOREACHArgs(n) == <<G>> \o Variadic(Elems(n))

\* IS_EMPTY that takes a list of one element for an empty one
IS_EMPTYOfOne(rest) == Len(rest) <= 1

\* #define IS_EMPTY(...) BOOL(__VA_OPT__(0)): no token at all in the list
IS_EMPTY(rest) == rest = <<>> \/ rest = <<Bare(<<>>)>>

\* _function(_head) that expands to nothing on an empty element
ApplySkipsEmpty(function, head) ==
  IF head.toks = <<>> THEN <<>> ELSE <<GOf(head)>>

\* _function(_head)
Apply(function, head) == <<GOf(head)>>

\* (_function(_head) EXPAND _state): the new result in front of the old ones
AccumulatePrepends(state, function, head) ==
  Paren(Apply(function, head) \o EXPAND(state))

\* (EXPAND _state _function(_head)): the old results, then the new one
Accumulate(state, function, head) ==
  Paren(EXPAND(state) \o Apply(function, head))

\* The list lengths tried: the short ones and the two around the limit
ElemCounts == 0..MaxElems \cup {Limit - 1, Limit}

NoPrev == [outcome |-> "", output |-> <<>>, signal |-> "", hookVia |-> "",
           apps |-> 0, count |-> 0, level |-> 0, attempts |-> 0, c0 |-> 0]

\* ------------------------------------------------------------------- Init
\* #define CM(f, initial_state, ...)
\*   EXPAND(DISCARD CM_LPAREN CM_CONT_0(, f, initial_state, __VA_ARGS__))
InitialState ==
  IF f0 = "DEC" THEN Paren(<<Num(n0)>>)
  ELSE IF f0 \in {"ADD", "FOREACH_ITERATE"} THEN CM_NO_STATE
  ELSE Paren(<<Id("a")>>)

InitialArgs == IF f0 = "FOREACH_ITERATE" THEN FOREACHArgs(nE) ELSE <<>>

Init ==
  /\ hook \in {"default", "return"}
  /\ f0 \in EntryFunctions
  /\ n0 \in IF f0 = "DEC" THEN 0..MaxN ELSE {0}
  /\ c0 \in IF f0 = "ADD" THEN 0..MaxCounter0 ELSE {0}
  /\ nE \in IF f0 = "FOREACH_ITERATE" THEN ElemCounts ELSE {0}
  /\ run = 1
  /\ prev = NoPrev
  /\ COUNTER = c0
  /\ pc = "invoke"
  /\ stack = <<>>
  /\ call = Macro("CM_CONT", 0)
  /\ val = StateVal(MachineState("", f0, InitialState, InitialArgs))
  /\ fn = ""
  /\ inp = NoMS
  /\ inP = ""
  /\ count = 0
  /\ apps = 0
  /\ level = 0
  /\ levelCount = 0
  /\ attempts = 0
  /\ signal = "none"
  /\ hookVia = "none"
  /\ retState = CM_NO_STATE
  /\ outcome = "running"
  /\ output = <<>>
  /\ gApps = 0

config == <<hook, f0, n0, c0, nE, run, prev>>

\* ----------------------------------------------------- scheduler actions
\* What CM_CONT_N and CM_EXEC_N share: CM_##f(, p##f, p##__VA_ARGS__)
SetUpDispatch(frames) ==
  \E r \in PasteState(val.ms.p, val.ms.state) :
    IF r.ok
    THEN /\ pc' = "dispatch"
         /\ stack' = stack \o frames
         /\ fn' = DispatchTarget(val.ms)
         /\ inp' = DispatchInput(val.ms, r.state)
         /\ val' = TextVal
         /\ call' = NoCall
         /\ UNCHANGED outcome
    ELSE /\ pc' = "done"
         /\ outcome' = "invalid_paste"
         /\ UNCHANGED <<stack, fn, inp, val, call>>

CM_CONT ==
  /\ pc = "invoke"
  /\ call.id = "CM_CONT"
  /\ SetUpDispatch(ContFrames(call.n))
  /\ level' = call.n
  /\ levelCount' = 0
  /\ attempts' = attempts + 1
  /\ UNCHANGED <<config, gApps, COUNTER, inP, count, apps, signal, hookVia,
                 retState, output>>

CM_EXEC ==
  /\ pc = "invoke"
  /\ call.id = "CM_EXEC"
  /\ SetUpDispatch(ExecFrames(call.n))
  /\ UNCHANGED <<config, gApps, COUNTER, inP, count, apps, level, levelCount,
                 attempts, signal, hookVia, retState, output>>

\* CM_EXECUTE_N(x) CM_EXEC_N x  /  CM_CONTINUE_N(x) CM_CONT_N x  /
\* CM_ABORT_ITER(x) CM_ERROR_ITERATION_LIMIT_REACHED x
Rescan ==
  /\ stack' = Pop
  /\ IF Invoked(val)
     THEN /\ pc' = "invoke"
          /\ call' = Target(Top)
          /\ UNCHANGED val
     ELSE /\ val' = [val EXCEPT !.left = <<Target(Top)>> \o @]
          /\ UNCHANGED <<pc, call>>
  /\ UNCHANGED <<config, gApps, COUNTER, fn, inp, inP, count, apps, level,
                 levelCount, attempts, signal, hookVia, retState, outcome,
                 output>>

Pending(m) == pc = "rescan" /\ stack # <<>> /\ Top.id = m

CM_EXECUTE ==
  /\ Pending("CM_EXECUTE")
  /\ Rescan

CM_CONTINUE ==
  /\ Pending("CM_CONTINUE")
  /\ Rescan

CM_ABORT_ITER ==
  /\ Pending("CM_ABORT_ITER")
  /\ Rescan

\* The rescan of CM's own replacement list, once CM_CONT_0(...) is expanded
CM ==
  /\ pc = "rescan"
  /\ stack = <<>>
  /\ pc' = "done"
  /\ IF val.kind = "closed"
     THEN /\ output' = DISCARD(val.left, val.tail)
          /\ outcome' = "expanded"
     ELSE /\ outcome' = "unterminated"
          /\ UNCHANGED output
  /\ UNCHANGED <<config, gApps, COUNTER, stack, call, val, fn, inp, inP, count,
                 apps, level, levelCount, attempts, signal, hookVia,
                 retState>>

\* ------------------------------------------------------------- dispatches
Dispatched ==
  /\ count' = count + 1
  /\ levelCount' = levelCount + 1
  /\ inP' = inp.p
  /\ inp' = NoMS
  /\ UNCHANGED <<config, stack, call, fn, level, attempts, output>>

Applied == Dispatched /\ apps' = apps + 1

\* example.c: #define CM_ADD(p, f, state, ...) (, f, (__COUNTER__), state)
CM_ADD ==
  /\ pc = "dispatch"
  /\ fn = "ADD"
  /\ val' = StateVal(MachineState("", inp.f, Paren(<<Num(COUNTER)>>),
                                  <<inp.state>>))
  /\ COUNTER' = COUNTER + 1
  /\ pc' = "rescan"
  /\ Applied
  /\ UNCHANGED <<gApps, signal, hookVia, retState, outcome>>

\* #define CM_FOREACH_ITERATE(_prefix, _foreach, _state, _function, _head, ...)
\*   (, IF(IS_EMPTY(__VA_ARGS__))(RETURN, FOREACH_ITERATE),
\*    (EXPAND _state _function(_head)), _function, __VA_ARGS__)
CM_FOREACH_ITERATE ==
  /\ pc = "dispatch"
  /\ fn = "FOREACH_ITERATE"
  /\ Len(inp.args) >= 2
  /\ LET function == inp.args[1]
         head     == inp.args[2]
         rest     == SubSeq(inp.args, 3, Len(inp.args))
     IN val' = StateVal(MachineState(
                 "",
                 IF IS_EMPTY(rest) THEN "RETURN" ELSE "FOREACH_ITERATE",
                 Accumulate(inp.state, function, head),
                 <<function>> \o Variadic(rest)))
  /\ gApps' = gApps + 1
  /\ pc' = "rescan"
  /\ Applied
  /\ UNCHANGED <<COUNTER, signal, hookVia, retState, outcome>>

\* Dispatch to CM_RETURN
DispatchRETURN ==
  /\ pc = "dispatch"
  /\ fn = "RETURN"
  /\ val' = CM_RETURN(inp.p, inp.f, inp.state, inp.args)
  /\ retState' = inp.state
  /\ signal' = "RETURN"
  /\ pc' = "rescan"
  /\ Dispatched
  /\ UNCHANGED <<gApps, COUNTER, apps, hookVia, outcome>>

\* Dispatch to CM_EXIT
DispatchEXIT ==
  /\ pc = "dispatch"
  /\ fn = "EXIT"
  /\ val' = CM_EXIT
  /\ signal' = "EXIT"
  /\ pc' = "rescan"
  /\ Dispatched
  /\ UNCHANGED <<gApps, COUNTER, apps, hookVia, retState, outcome>>

\* CM_##f where CM_f is not a macro: the tokens stay as they are
DispatchUndefined ==
  /\ pc = "dispatch"
  /\ fn \notin Defined
  /\ val' = TextVal
  /\ pc' = "rescan"
  /\ inp' = NoMS
  /\ UNCHANGED <<config, gApps, COUNTER, stack, call, fn, inP, count, apps, level,
                 levelCount, attempts, signal, hookVia, retState, outcome,
                 output>>

\* The decrementing function of the termination-correctness property:
\* decrement the counter, Return(0) when it reaches 0.
CM_DEC ==
  /\ pc = "dispatch"
  /\ fn = "DEC"
  /\ LET c == Head(inp.state.toks).n
     IN IF c <= 1
        THEN /\ val' = CM_RETURN("", inp.f, Paren(<<Num(0)>>), inp.args)
             /\ retState' = Paren(<<Num(0)>>)
             /\ signal' = "RETURN"
        ELSE /\ val' = StateVal(MachineState("", inp.f, Paren(<<Num(c - 1)>>),
                                             inp.args))
             /\ UNCHANGED <<retState, signal>>
  /\ pc' = "rescan"
  /\ Applied
  /\ UNCHANGED <<gApps, COUNTER, hookVia, outcome>>

\* Any transition function (prefix, current_f, state, args...) ->
\* (prefix, next_f, new_state, new_args...): it may continue with any prefix,
\* any next function and any new state, or expand to CM_RETURN / CM_EXIT itself.
UserNext == {inp.f, "USER", "OTHER", "RETURN", "EXIT", HookName}

CM_USER ==
  /\ pc = "dispatch"
  /\ fn \in {"USER", "OTHER"}
  /\ \/ \E p \in Prefixes, f \in UserNext, st \in UserStates :
          /\ val' = StateVal(MachineState(p, f, st, inp.args))
          /\ UNCHANGED <<retState, signal>>
     \/ \E st \in UserStates :
          /\ val' = CM_RETURN("", inp.f, st, inp.args)
          /\ retState' = st
          /\ signal' = "RETURN"
     \/ /\ val' = CM_EXIT
        /\ signal' = "EXIT"
        /\ UNCHANGED retState
  /\ pc' = "rescan"
  /\ Applied
  /\ UNCHANGED <<gApps, COUNTER, hookVia, outcome>>

\* The hook of example.c whatever was defined: the run returns the state
HookAlwaysReturns(ms, via) ==
  /\ hookVia' = via
  /\ pc' = "rescan"
  /\ val' = CM_RETURN("", ms.f, ms.state, ms.args)
  /\ retState' = ms.state
  /\ signal' = "RETURN"
  /\ UNCHANGED outcome

\* ------------------------------------------------------------------- hook
\* continuation_machine.h: #define CM_ERROR_ITERATION_LIMIT_REACHED()
\*   invoked with the arguments of a machine state: preprocessing fails.
\* example.c: #define CM_ERROR_ITERATION_LIMIT_REACHED(p, f, state, ...)
\*   CM_RETURN(, f, state, __VA_ARGS__)
CM_ERROR_ITERATION_LIMIT_REACHED(ms, via) ==
  /\ hookVia' = via
  /\ IF hook = "default"
     THEN /\ pc' = "done"
          /\ outcome' = "iteration_limit_error"
          /\ UNCHANGED <<val, retState, signal>>
     ELSE /\ pc' = "rescan"
          /\ val' = CM_RETURN("", ms.f, ms.state, ms.args)
          /\ retState' = ms.state
          /\ signal' = "RETURN"
          /\ UNCHANGED outcome

\* CM_ABORT_ITER(x) CM_ERROR_ITERATION_LIMIT_REACHED x, x a machine state
AbortHook ==
  /\ pc = "invoke"
  /\ call.id = "CM_ERROR_ITERATION_LIMIT_REACHED"
  /\ CM_ERROR_ITERATION_LIMIT_REACHED(val.ms, "abort")
  /\ call' = NoCall
  /\ UNCHANGED <<config, gApps, COUNTER, stack, fn, inp, inP, count, apps, level,
                 levelCount, attempts, output>>

\* CM_##f with f = ERROR_ITERATION_LIMIT_REACHED
DispatchHook ==
  /\ pc = "dispatch"
  /\ fn = HookName
  /\ CM_ERROR_ITERATION_LIMIT_REACHED(inp, "dispatch")
  /\ Dispatched
  /\ UNCHANGED <<gApps, COUNTER, apps>>

Next ==
  \/ CM_CONT
  \/ CM_EXEC
  \/ CM_EXECUTE
  \/ CM_CONTINUE
  \/ CM_ABORT_ITER
  \/ CM
  \/ CM_ADD
  \/ CM_DEC
  \/ CM_USER
  \/ CM_FOREACH_ITERATE
  \/ DispatchRETURN
  \/ DispatchEXIT
  \/ DispatchHook
  \/ DispatchUndefined
  \/ AbortHook

Spec == Init /\ [][Next]_vars

\* The preprocessor goes on rescanning as long as a macro invocation is left
FairSpec == Spec /\ WF_vars(Next)

\* ------------------------------------------------- two runs of the machine
\* The transition functions whose macro body is given: the same input always
\* has the same replacement list
Deterministic == {"ADD", "DEC", "FOREACH_ITERATE", "RETURN", "EXIT"}

InitTwoRuns == Init /\ f0 \in Deterministic

\* What a second CM(f, initial_state, ...) has to do with the first one:
\* the macros are the same and nothing of the first expansion is left, only
\* __COUNTER__ goes on counting within a translation unit
Fresh ==
  /\ pc = "done"
  /\ run = 1
  /\ run' = 2
  /\ prev' = [outcome |-> outcome, output |-> output, signal |-> signal,
              hookVia |-> hookVia, apps |-> apps, count |-> count,
              level |-> level, attempts |-> attempts, c0 |-> c0]
  /\ COUNTER' \in {COUNTER, c0}   \* the same translation unit, or a new one
  /\ c0' = COUNTER'
  /\ pc' = "invoke"
  /\ stack' = <<>>
  /\ val' = StateVal(MachineState("", f0, InitialState, InitialArgs))
  /\ fn' = ""
  /\ inp' = NoMS
  /\ inP' = ""
  /\ count' = 0
  /\ apps' = 0
  /\ levelCount' = 0
  /\ attempts' = 0
  /\ signal' = "none"
  /\ hookVia' = "none"
  /\ retState' = CM_NO_STATE
  /\ outcome' = "running"
  /\ output' = <<>>
  /\ gApps' = 0
  /\ UNCHANGED <<hook, f0, n0, nE>>

\* A second CM that goes on at the level the first one reached
RestartResumes ==
  /\ Fresh
  /\ level' = level
  /\ call' = Macro("CM_CONT", level)

\* A second CM(f, initial_state, ...) with the same arguments: it starts
\* with CM_CONT_0 again
Restart ==
  /\ Fresh
  /\ level' = 0
  /\ call' = Macro("CM_CONT", 0)

NextTwoRuns ==
  \/ CM_CONT
  \/ CM_EXEC
  \/ CM_EXECUTE
  \/ CM_CONTINUE
  \/ CM_ABORT_ITER
  \/ CM
  \/ CM_ADD
  \/ CM_DEC
  \/ CM_FOREACH_ITERATE
  \/ DispatchRETURN
  \/ DispatchEXIT
  \/ AbortHook
  \/ Restart

SpecTwoRuns == InitTwoRuns /\ [][NextTwoRuns]_vars

\* ======================================================== checked properties
Escalating == pc = "invoke" /\ call.id = "CM_CONT" /\ call.n >= 1
Aborting   == pc = "invoke" /\ call.id = "CM_ERROR_ITERATION_LIMIT_REACHED"

\* C1 as stated: when CM_CONTINUE_i+1 invokes CM_CONT_i+1, or CM_ABORT_ITER
\* invokes the hook at level MAX, the attempt at level i has performed
\* exactly 2^i dispatches; a run starts with CM_CONT_0.
C1_Original ==
  /\ attempts = 0 => (pc = "invoke" /\ call = Macro("CM_CONT", 0))
  /\ Escalating => (level = call.n - 1 /\ levelCount = Pow2(level))
  /\ Aborting => (level = MAX /\ levelCount = Pow2(level))

\* C1 amended: an attempt at level i that produces no termination signal
\* performs exactly 2^(i+1) dispatches before CM_CONT_i+1 is invoked (or, at
\* level MAX, before CM_ABORT_ITER invokes the hook), and never more; a run
\* starts with CM_CONT_0, whose budget is 2.
C1_BudgetDoubles ==
  /\ attempts = 0 => (pc = "invoke" /\ call = Macro("CM_CONT", 0))
  /\ attempts = 1 => level = 0
  /\ levelCount <= Pow2(level + 1)
  /\ Escalating => (level = call.n - 1 /\ levelCount = Pow2(level + 1))
  /\ Aborting => (level = MAX /\ levelCount = Pow2(level + 1))
  /\ (pc = "rescan" /\ signal = "none" /\ val.kind = "state"
        /\ levelCount = Pow2(level + 1))
       => (Len(stack) = 1 /\ Top = ContFrames(level)[1])

C1_Witness ==
  /\ Escalating
  /\ call.n = 4
  /\ levelCount = 16
  /\ count = 30

\* C2 as stated: the scheduler's abort path is taken exactly at level MAX,
\* after 2^(MAX+1) - 1 = 1023 applications in total, and a function that
\* never signals ends there.
C2_Original ==
  /\ hookVia = "abort" => (level = MAX /\ apps = Pow2(MAX + 1) - 1)
  /\ (f0 = "ADD" /\ pc = "done") => hookVia = "abort"

\* C2 amended: the scheduler's abort path is taken exactly at level MAX,
\* after 2^(MAX+2) - 2 = 2046 applications in total, and a function that
\* never signals ends there.
C2_AbortAt2046 ==
  /\ (Aborting \/ hookVia = "abort")
       => (level = MAX /\ apps = 2046 /\ count = 2046 /\ apps = Limit)
  /\ (f0 = "ADD" /\ pc = "done") => hookVia = "abort"

C2_Witness ==
  /\ f0 = "ADD"
  /\ hook = "default"
  /\ pc = "done"
  /\ hookVia = "abort"
  /\ outcome = "iteration_limit_error"
  /\ apps = 2046

\* C3: at most 2046 dispatches are performed in a run, and the hook
\* CM_ERROR_ITERATION_LIMIT_REACHED is invoked only once all 2046 are used up.
C3_Claim ==
  /\ count <= 2046
  /\ hookVia # "none" => count = 2046

RECURSIVE CeilLog2From(_, _)
CeilLog2From(x, k) == IF Pow2(k) >= x THEN k ELSE CeilLog2From(x, k + 1)
\* the least k with 2^k >= x
CeilLog2(x) == CeilLog2From(x, 0)

DecDone == pc = "done" /\ f0 = "DEC"

\* C4 as stated: the decrementing function started from n >= 1 ends with
\* Return(0) after exactly ceil(log2(n+1)) attempts.
C4_Original ==
  (DecDone /\ n0 >= 1)
    => /\ outcome = "expanded" /\ signal = "RETURN" /\ output = <<Num(0)>>
       /\ attempts = CeilLog2(n0 + 1)

\* C4 amended: the decrementing function started from n ends with Return(0)
\* after exactly ceil(log2(n+2)) - 1 attempts for n >= 1, and after one
\* attempt for n = 0.
C4_AttemptsOfDec ==
  DecDone
    => /\ outcome = "expanded" /\ signal = "RETURN" /\ output = <<Num(0)>>
       /\ apps = (IF n0 = 0 THEN 1 ELSE n0)
       /\ attempts = (IF n0 = 0 THEN 1 ELSE CeilLog2(n0 + 2) - 1)

C4_Witness ==
  /\ DecDone
  /\ n0 = 7
  /\ attempts = 3
  /\ output = <<Num(0)>>

Ended == pc = "done" /\ outcome = "expanded"

C6_ShortCircuit ==
  [][signal # "none"
       => /\ count' = count /\ apps' = apps /\ levelCount' = levelCount
          /\ level' = level /\ attempts' = attempts
          /\ hookVia' = hookVia /\ signal' = signal
          /\ pc' \in {"rescan", "done"}
          /\ val'.kind = "closed" /\ val'.tail = val.tail]_vars

C6_Witness ==
  /\ signal # "none"
  /\ hookVia = "none"
  /\ pc = "rescan"
  /\ level = 3
  /\ levelCount = 5
  /\ Len(val.left) = 2
  /\ Len(stack) >= 2

\* C7: the first argument (p) a dispatched macro receives is always empty,
\* whatever p the previous output state carried.
C7_PrefixEmpty ==
  /\ inP = ""
  /\ pc = "dispatch" => inp.p = ""

C7_Witness ==
  /\ pc = "dispatch"
  /\ inp.f = "XUSER"
  /\ inp.p = ""
  /\ count >= 3

\* C8: the hook CM_ERROR_ITERATION_LIMIT_REACHED is invoked if and only if
\* the attempt at level MAX has used its whole budget without a termination
\* signal; no output of a transition function invokes it earlier or keeps it
\* from being invoked.
C8_Claim ==
  /\ hookVia # "none" => (level = MAX /\ levelCount = Pow2(MAX + 1)
                          /\ hookVia = "abort")
  /\ (pc = "done" /\ level = MAX /\ levelCount = Pow2(MAX + 1)
       /\ val.kind = "state") => hookVia = "abort"

AddReturned == pc = "done" /\ f0 = "ADD" /\ hook = "return"

C10_Original ==
  (pc = "dispatch" /\ fn \in Functions) => fn = f0

\* C10 amended: every dispatch goes to the function ref of the machine state
\* it consumes: the f passed to CM for the first dispatch, and afterwards the
\* next-function ref f of the previous output state, without its prefix p.
C10_DispatchFollowsState ==
  [][(pc = "invoke" /\ pc' = "dispatch")
       => /\ fn' = val.ms.f
          /\ count = 0 => fn' = f0]_vars

C10_Witness ==
  /\ pc = "dispatch"
  /\ f0 = "USER"
  /\ fn = "OTHER"
  /\ inp.f = "XOTHER"

\* ---------------------------------------------------------------- C11
ForeachDone == pc = "done" /\ f0 = "FOREACH_ITERATE"

\* g(a1) g(a2) ... g(an)
Results(n) == [i \in 1..n |-> GOf(Elems(n)[i])]

\* C11: FOREACH(g, a1, ..., an) over a non-empty list whose n + 1 dispatches
\* fit under the iteration limit ends with CM_RETURN, and expands to
\* g(a1) g(a2) ... g(an): g is expanded once per element, and the results
\* stand in the order of the elements.
C11_SequenceTraversal ==
  (ForeachDone /\ nE >= 1 /\ nE + 1 <= Limit)
    => /\ outcome = "expanded"
       /\ signal = "RETURN"
       /\ hookVia = "none"
       /\ gApps = nE
       /\ output = Results(nE)

C11_Witness ==
  /\ ForeachDone
  /\ nE = 3
  /\ signal = "RETURN"
  /\ output = <<[id |-> "G", n |-> 1], [id |-> "G", n |-> 2],
                [id |-> "G", n |-> 3]>>

\* ---------------------------------------------------------------- C12
SecondDone == pc = "done" /\ run = 2

SameCourse ==
  /\ outcome = prev.outcome
  /\ signal = prev.signal
  /\ hookVia = prev.hookVia
  /\ apps = prev.apps
  /\ count = prev.count
  /\ level = prev.level
  /\ attempts = prev.attempts

C13_EscalationOrder ==
  /\ [](level \in 0..MAX /\ (attempts >= 1 => attempts = level + 1))
  /\ [][level' # level
          => /\ level' = level + 1
             /\ levelCount = Pow2(level + 1)
             /\ signal = "none"
             /\ hookVia = "none"
             /\ Escalating]_vars

C13_Witness ==
  /\ level = MAX
  /\ attempts = MAX + 1
  /\ levelCount = 0
  /\ count = Pow2(MAX + 1) - 2
  /\ signal = "none"

\* ---------------------------------------------------------------- C14
\* A dispatch is being set up from the machine state in val
Consuming == pc = "invoke" /\ pc' = "dispatch"

\* The machine state waits in val, or has been handed to a dispatch
OneHolder ==
  /\ pc = "dispatch" => (val = TextVal /\ inp # NoMS)
  /\ pc \in {"invoke", "rescan"} => inp = NoMS
  /\ pc = "invoke" => val.kind = "state"

\* A produced machine state is not touched until it is consumed
Untouched ==
  (pc = "rescan" /\ val.kind = "state" /\ pc' # "done") => val' = val

\* A dispatch takes the state it was set up with, and is the only step that
\* counts
OneDispatch ==
  count' # count
    => /\ count' = count + 1
       /\ pc = "dispatch"
       /\ inp' = NoMS
       /\ val'.kind = "state" => pc' = "rescan"

\* C14 as stated: the function ref, state and args a dispatch receives are
\* exactly those of the machine state the previous application produced.
C14_Original ==
  [][Consuming
       => /\ inp'.f = val.ms.f
          /\ inp'.state = val.ms.state
          /\ inp'.args = val.ms.args]_vars

\* C14: a dispatch receives the args of the previous output state unchanged,
\* its f with p pasted in front and its state with p pasted onto the first
\* token (both unchanged when p is empty); the output state is not touched
\* between the two applications, neither within an attempt nor by
\* CM_CONTINUE_N, and it is handed to one dispatch only.
C14_StateThreading ==
  /\ []OneHolder
  /\ [][Untouched /\ OneDispatch]_vars
  /\ [][Consuming
          => /\ inp'.args = val.ms.args
             /\ inp'.f = val.ms.p \o val.ms.f
             /\ val.ms.p = "" => inp'.state = val.ms.state
             /\ (val.ms.p # "" /\ ~val.ms.state.paren)
                  => /\ ~inp'.state.paren
                     /\ Head(inp'.state.toks).id
                          = val.ms.p \o Head(val.ms.state.toks).id
                     /\ Tail(inp'.state.toks) = Tail(val.ms.state.toks)]_vars

C14_Witness ==
  /\ pc = "dispatch"
  /\ level = 3
  /\ levelCount = 0
  /\ inp.f = "XUSER"
  /\ inp.state = Bare(<<Id("Xst")>>)

\* ---------------------------------------------------------------- C15
RunEnds == <>(pc = "done")

\* Every name the run dispatched on is defined and no paste was invalid
Resolved == outcome \notin {"unterminated", "invalid_paste"}

\* C15: every run ends after at most 2046 dispatches, with CM_RETURN or
\* CM_EXIT expanded by a transition function or on the abort path; a run
\* whose functions never expand CM_RETURN / CM_EXIT is ended by
\* CM_ABORT_ITER at level MAX and by nothing else.
C15_Claim ==
  /\ RunEnds
  /\ [](count <= Limit)
  /\ []((pc = "done" /\ Resolved)
          => \/ hookVia = "none" /\ signal \in Terminators
             \/ hookVia = "abort" /\ level = MAX /\ count = Limit)

\* ---------------------------------------------------------------- C16
HookFailed == hook = "default" /\ hookVia # "none"

\* C16: with the default CM_ERROR_ITERATION_LIMIT_REACHED() a run that comes
\* to the hook ends there with the preprocessing error: nothing is expanded
\* (no CM_RETURN, no CM_EXIT, no state), and no dispatch follows.
C16_LoudFailure ==
  /\ [](HookFailed
          => /\ pc = "done"
             /\ outcome = "iteration_limit_error"
             /\ signal = "none"
             /\ output = <<>>)
  /\ [][HookFailed => (count' = count /\ apps' = apps /\ output' = output)]_vars

C16_Witness ==
  /\ HookFailed
  /\ hookVia = "abort"
  /\ f0 = "ADD"
  /\ count = Limit
  /\ COUNTER = c0 + Limit
  /\ val.kind = "state"
  /\ output = <<>>

\* ---------------------------------------------------------------- C17
\* The run ended with the CM_RETURN / CM_EXIT of its 2046th dispatch, the
\* last one of CM_CONT_9
EndedAtLast ==
  /\ pc = "done"
  /\ count = 2046
  /\ signal \in Terminators
  /\ hookVia = "none"

\* C17: a run whose CM_RETURN / CM_EXIT is expanded by the 2046th dispatch,
\* the last one of CM_CONT_9, ends with that signal's expansion and without
\* the hook; CM_ABORT_ITER invokes the hook exactly when what the 2046th
\* dispatch left is a machine state.
C17_CapBoundary ==
  /\ [](EndedAtLast
          => /\ outcome = "expanded"
             /\ level = 9
             /\ levelCount = 1024
             /\ signal = "EXIT" => output = <<>>
             /\ signal = "RETURN" => output = EXPAND(retState))
  /\ [][Pending("CM_ABORT_ITER")
          => /\ level = 9
             /\ (pc' = "invoke") <=> (val.kind = "state")
             /\ val.kind = "state" => (count = 2046 /\ Aborting')]_vars
  /\ [][(hookVia' = "abort" /\ hookVia = "none")
          => (Aborting /\ count = 2046 /\ val.kind = "state")]_vars

C17_Witness ==
  /\ EndedAtLast
  /\ f0 = "USER"
  /\ signal = "RETURN"
  /\ outcome = "expanded"
  /\ output = <<Id("a")>>

\* ---------------------------------------------------------------- C18
\* C18: the dispatch on RETURN or EXIT is a dispatch like any other: it
\* takes one unit of the attempt's budget, and the run ends with it; so
\* FOREACH over n >= 1 elements makes n dispatches of CM_FOREACH_ITERATE and
\* one of CM_RETURN when n + 1 <= 2046, and comes to the hook after 2046
\* dispatches otherwise.
C18_TerminatorDispatch ==
  /\ [][(pc = "dispatch" /\ fn \in Terminators)
          => /\ count' = count + 1
             /\ levelCount' = levelCount + 1
             /\ apps' = apps
             /\ signal' = fn
             /\ val'.kind = "closed"]_vars
  /\ []((ForeachDone /\ nE >= 1 /\ nE + 1 <= Limit)
          => /\ count = nE + 1
             /\ apps = nE
             /\ signal = "RETURN"
             /\ hookVia = "none"
             /\ outcome = "expanded")
  /\ []((ForeachDone /\ nE + 1 > Limit)
          => /\ count = Limit
             /\ apps = Limit
             /\ hookVia = "abort"
             /\ hook = "default" => outcome = "iteration_limit_error")

C18_Witness ==
  /\ ForeachDone
  /\ nE = 6
  /\ count = 7
  /\ apps = 6
  /\ level = 2
  /\ levelCount = 1
  /\ signal = "RETURN"

\* ---------------------------------------------------------------- C19
\* max(1, n)
AtLeastOne(n) == IF n >= 1 THEN n ELSE 1

\* C19: FOREACH(g) without elements still expands g once, on an empty
\* element, and expands to g(); for n elements g is expanded max(1, n)
\* times.
C19_EmptyList ==
  /\ (ForeachDone /\ nE = 0)
       => /\ outcome = "expanded"
          /\ signal = "RETURN"
          /\ gApps = 1
          /\ count = 2
          /\ output = <<GOf(Bare(<<>>))>>
  /\ ForeachDone => gApps = AtLeastOne(nE)

C19_Witness ==
  /\ ForeachDone
  /\ nE = 0
  /\ gApps = 1
  /\ output = <<Id("G()")>>

====
